---- MODULE Spec2Model ----
(***************************************************************************)
(* smol-potat: the attribute macros main / test / bench                    *)
(* (smol-potat-macro/src/lib.rs and the older src/lib.rs) and the entry    *)
(* point that the main macro generates (executor, shutdown channel,        *)
(* worker threads, join).                                                  *)
(*                                                                         *)
(* An expansion is a pure function of the annotated function, the          *)
(* attribute arguments and the `auto` feature: it is an operator, applied  *)
(* by one action.  The generated entry point is then run as a set of       *)
(* threads, one step per action.                                           *)
(***************************************************************************)
EXTENDS Integers, Sequences, FiniteSets, TLC

\* Longest attribute-argument list that is enumerated.
MaxArgs == 2
\* Largest worker count whose run is explored: the threads literals 0..MaxWorkers
\* and the cpu counts 0..MaxWorkers are enumerated.
MaxWorkers == 2

----------------------------------------------------------------------------
(* Identifiers are sequences of characters, integer literals sequences of  *)
(* decimal digits (a literal may exceed every machine integer).            *)

MainIdent == <<"m", "a", "i", "n">>
OtherIdent == <<"r", "u", "n">>
ThreadsKey == <<"t", "h", "r", "e", "a", "d", "s">>
ThreadsKeyMixed == <<"T", "h", "r", "e", "a", "D", "S">>
WorkersKey == <<"w", "o", "r", "k", "e", "r", "s">>

\* u32::MAX = 4294967295 and its successor, as digits.
U32MaxDigits == <<4, 2, 9, 4, 9, 6, 7, 2, 9, 5>>
U32OverDigits == <<4, 2, 9, 4, 9, 6, 7, 2, 9, 6>>

\* str::to_lowercase on the characters that occur.
LowerChar(c) ==
    CASE c = "T" -> "t"
      [] c = "H" -> "h"
      [] c = "R" -> "r"
      [] c = "E" -> "e"
      [] c = "A" -> "a"
      [] c = "D" -> "d"
      [] c = "S" -> "s"
      [] OTHER -> c

\* A variant: the identifier compared as written.
to_lowercase_verbatim(s) == s

to_lowercase(s) == [i \in 1..Len(s) |-> LowerChar(s[i])]

RECURSIVE StripZeros(_)
StripZeros(d) ==
    IF Len(d) > 1 /\ d[1] = 0 THEN StripZeros(Tail(d)) ELSE d

\* d <= e for digit sequences of the same length.
RECURSIVE DigitsLE(_, _)
DigitsLE(d, e) ==
    IF d = <<>> THEN TRUE
    ELSE IF d[1] < e[1] THEN TRUE
    ELSE IF d[1] > e[1] THEN FALSE
    ELSE DigitsLE(Tail(d), Tail(e))

\* LitInt::base10_parse::<u32>: Ok(value) when the digits fit 32 bits, else Err.
base10_parse_u32(digits) ==
    LET d == StripZeros(digits) IN
    IF Len(d) < Len(U32MaxDigits) \/ (Len(d) = Len(U32MaxDigits) /\ DigitsLE(d, U32MaxDigits))
    THEN [ok |-> TRUE, val |-> d]
    ELSE [ok |-> FALSE, val |-> <<>>]

\* num > 1 on a parsed (zero-stripped) value.
GreaterThanOne(d) == Len(d) > 1 \/ d[1] > 1

\* The value of a short digit sequence.
RECURSIVE ToNat(_)
ToNat(d) == IF d = <<>> THEN 0 ELSE 10 * ToNat(SubSeq(d, 1, Len(d) - 1)) + d[Len(d)]

----------------------------------------------------------------------------
(* Attribute arguments (syn::NestedMeta).                                  *)

IntLit(d) == [kind |-> "Int", digits |-> d]
StrLit == [kind |-> "Str", digits |-> <<>>]

\* key = lit, the key a path of one or more segments
NameValue(path, lit) == [shape |-> "NameValue", path |-> path, lit |-> lit]
\* a bare word, a nested list or a literal
BareArg == [shape |-> "Other", path |-> <<>>, lit |-> StrLit]

SmallLits == {IntLit(<<k>>) : k \in 0..MaxWorkers}

ArgSet ==
    {NameValue(<<ThreadsKey>>, l) : l \in SmallLits \cup {IntLit(U32MaxDigits), IntLit(U32OverDigits), StrLit}}
    \cup {NameValue(<<ThreadsKeyMixed>>, IntLit(<<MaxWorkers>>)),
          NameValue(<<WorkersKey>>, IntLit(<<MaxWorkers>>)),
          NameValue(<<WorkersKey, ThreadsKey>>, IntLit(<<MaxWorkers>>)),
          BareArg}

ArgLists == UNION {[1..k -> ArgSet] : k \in 0..MaxArgs}

\* Path::get_ident: the identifier of a one-segment path.
get_ident(path) == IF Len(path) = 1 THEN <<path[1]>> ELSE <<>>

----------------------------------------------------------------------------
(* Outcomes of an expansion.                                               *)

NoLoc == [tok |-> "none", arg |-> 0]
Loc(tok, i) == [tok |-> tok, arg |-> i]

\* The generated outer function: how it drives the body (shape, num, driver) and
\* its signature (name, visibility, parameters, return type).
NoProgram ==
    [shape |-> "none", num |-> <<>>, driver |-> "", name |-> <<>>, vis |-> "", nparams |-> 0, ret |-> ""]

NoOutcome == [kind |-> "none", msg |-> "", loc |-> NoLoc, program |-> NoProgram, stages |-> <<>>]

\* quote_spanned! { span => compile_error!(msg) }
Diagnostic(msg, loc, stages) ==
    [kind |-> "diagnostic", msg |-> msg, loc |-> loc, program |-> NoProgram, stages |-> stages]

\* quote! { ... }
Code(program, stages) ==
    [kind |-> "code", msg |-> "", loc |-> NoLoc, program |-> program, stages |-> stages]

\* A panic of the macro (Result::unwrap on Err): no token stream is returned.
Panicked(stages) ==
    [kind |-> "panic", msg |-> "", loc |-> NoLoc, program |-> NoProgram, stages |-> stages]

MsgNoIdent == "Must have specified ident"
MsgThreadsInt == "threads argument must be an int"
\* (the source quotes the word threads in backquotes)
MsgUnknownPair == "Unknown attribute pair {} is specified; expected: threads"
MsgUnknownAttr == "Unknown attribute inside the macro"
MsgOnlyMain == "only the main function can be tagged with #[smol::main]"
MsgNoAsync == "the async keyword is missing from the function declaration"
MsgBenchArgs == "async benchmarks don't take any arguments"

----------------------------------------------------------------------------
(* The macros of smol-potat-macro/src/lib.rs.                              *)

None == <<>>
Some(x) == <<x>>

ResolveOk(threads) == [kind |-> "ok", threads |-> threads, msg |-> "", loc |-> NoLoc]
ResolveErr(msg, loc) == [kind |-> "error", threads |-> None, msg |-> msg, loc |-> loc]
ResolvePanic == [kind |-> "panic", threads |-> None, msg |-> "", loc |-> NoLoc]

\* if num > 1 { threads = Some(num); }
ThreadsUpdate(threads, num) == IF GreaterThanOne(num) THEN Some(num) ELSE threads

\* A variant: the diagnostic spanned at the literal (namevalue.lit.span()).
ThreadsLitErrorAtValue(i) == ResolveErr(MsgThreadsInt, Loc("value", i))

\* quote_spanned! { namevalue.span() => compile_error!("threads argument
\* must be an int") }: the span of the whole key = value pair
ThreadsLitError(i) == ResolveErr(MsgThreadsInt, Loc("pair", i))

\* The loop `for arg in args`, from argument i on, threads being the value
\* accumulated so far; every error returns from the macro at once.
RECURSIVE ResolveFrom(_, _, _)
ResolveFrom(list, i, threads) ==
    IF i > Len(list) THEN ResolveOk(threads)
    ELSE LET arg == list[i] IN
      IF arg.shape = "NameValue"
      THEN LET ident == get_ident(arg.path) IN
        IF ident = None
        THEN \* the span of a None is the call site
             ResolveErr(MsgNoIdent, Loc("call_site", i))
        ELSE IF to_lowercase(ident[1]) = ThreadsKey
        THEN IF arg.lit.kind = "Int"
             THEN LET num == base10_parse_u32(arg.lit.digits) IN
                  IF num.ok
                  THEN ResolveFrom(list, i + 1, ThreadsUpdate(threads, num.val))
                  ELSE \* .unwrap() of an Err
                       ResolvePanic
             ELSE ThreadsLitError(i)
        ELSE \* the span of the lower-cased &str is the call site
             ResolveErr(MsgUnknownPair, Loc("call_site", i))
      ELSE ResolveErr(MsgUnknownAttr, Loc("arg", i))

\* let mut threads = None; for arg in args { ... }
ResolveArgs(list) == ResolveFrom(list, 1, None)

\* The outer function of every arm: fn main() #ret
OuterMain(f, shape, num, driver) ==
    [shape |-> shape, num |-> num, driver |-> driver,
     name |-> MainIdent, vis |-> "", nparams |-> 0, ret |-> f.ret]

\* A variant: the body of a pool driven through the executor
\* (block_on(ex.run(async { ... }))).
SynthesizeOnExecutor(f, threads, autoFeature) ==
    IF threads # None
    THEN OuterMain(f, "pool", threads[1], "Executor::run")
    ELSE IF autoFeature
    THEN OuterMain(f, "auto_pool", <<>>, "Executor::run")
    ELSE OuterMain(f, "block_on", <<>>, "smol_potat::block_on")

\* match threads { Some(num) => ..., _ => ... } under the feature `auto`
Synthesize(f, threads, autoFeature) ==
    IF threads # None
    THEN OuterMain(f, "pool", threads[1], "futures_lite::block_on")
    ELSE IF autoFeature
    THEN OuterMain(f, "auto_pool", <<>>, "futures_lite::block_on")
    ELSE OuterMain(f, "block_on", <<>>, "smol_potat::block_on")

\* A variant: the async keyword checked before the name.
MainShapeCheckAsyncFirst(f, stages) ==
    IF ~f.isAsync THEN Diagnostic(MsgNoAsync, Loc("function", 0), stages)
    ELSE IF f.name # MainIdent THEN Diagnostic(MsgOnlyMain, Loc("name", 0), stages)
    ELSE NoOutcome

\* The two checks of the function after the argument loop.
MainShapeCheck(f, stages) ==
    IF f.name # MainIdent THEN Diagnostic(MsgOnlyMain, Loc("name", 0), stages)
    ELSE IF ~f.isAsync THEN Diagnostic(MsgNoAsync, Loc("function", 0), stages)
    ELSE NoOutcome

\* A variant: the function checked before the arguments are read.
MacroMainValidateFirst(f, list, autoFeature) ==
    LET bad == MainShapeCheck(f, <<"validate">>) IN
    IF bad # NoOutcome THEN bad
    ELSE LET res == ResolveArgs(list) IN
         IF res.kind = "panic" THEN Panicked(<<"validate", "resolve">>)
         ELSE IF res.kind = "error" THEN Diagnostic(res.msg, res.loc, <<"validate", "resolve">>)
         ELSE Code(Synthesize(f, res.threads, autoFeature), <<"validate", "resolve", "synthesize">>)

\* #[proc_macro_attribute] pub fn main(attr, item)
MacroMain(f, list, autoFeature) ==
    LET res == ResolveArgs(list) IN
    IF res.kind = "panic" THEN Panicked(<<"resolve">>)
    ELSE IF res.kind = "error" THEN Diagnostic(res.msg, res.loc, <<"resolve">>)
    ELSE LET bad == MainShapeCheck(f, <<"resolve", "validate">>) IN
         IF bad # NoOutcome THEN bad
         ELSE Code(Synthesize(f, res.threads, autoFeature), <<"resolve", "validate", "synthesize">>)

\* #[proc_macro_attribute] pub fn test(_attr, item)
MacroTest(f) ==
    IF ~f.isAsync THEN Diagnostic(MsgNoAsync, Loc("function", 0), <<"validate">>)
    ELSE \* #[test] fn #name() #ret { smol::block_on(async { #body }) }
         Code([shape |-> "test", num |-> <<>>, driver |-> "smol::block_on",
               name |-> f.name, vis |-> "", nparams |-> 0, ret |-> f.ret],
              <<"validate", "synthesize">>)

\* #[proc_macro_attribute] pub fn bench(_attr, item)
MacroBench(f) ==
    IF ~f.isAsync THEN Diagnostic(MsgNoAsync, Loc("function", 0), <<"validate">>)
    ELSE IF f.nparams # 0 THEN Diagnostic(MsgBenchArgs, Loc("params", 0), <<"validate">>)
    ELSE \* #[bench] fn #name(b: &mut test::Bencher) #ret { let _ = b.iter(...); }
         Code([shape |-> "bench", num |-> <<>>, driver |-> "smol::block_on",
               name |-> f.name, vis |-> "", nparams |-> 1, ret |-> f.ret],
              <<"validate", "synthesize">>)

----------------------------------------------------------------------------
(* The macros of the older src/lib.rs (no attribute arguments).            *)

RootMain(f) ==
    LET bad == MainShapeCheck(f, <<"validate">>) IN
    IF bad # NoOutcome THEN bad
    ELSE Code(OuterMain(f, "block_on", <<>>, "smol::run"), <<"validate", "synthesize">>)

RootTest(f) ==
    IF ~f.isAsync THEN Diagnostic(MsgNoAsync, Loc("function", 0), <<"validate">>)
    ELSE \* #[test] fn #name() #ret { smol::run(async { #body }) }
         Code([shape |-> "test", num |-> <<>>, driver |-> "smol::run",
               name |-> f.name, vis |-> "", nparams |-> 0, ret |-> f.ret],
              <<"validate", "synthesize">>)

RootBench(f) == MacroBench(f)

----------------------------------------------------------------------------
(* State: one expansion, then one call of the generated entry point.       *)

VARIABLES
    lib,        \* "macro" (smol-potat-macro/src/lib.rs) or "root" (src/lib.rs)
    mode,       \* "main", "test" or "bench": the attribute that is expanded
    fn,         \* the annotated function (syn::ItemFn)
    args,       \* the attribute arguments (syn::AttributeArgs)
    auto,       \* whether the feature `auto` is enabled
    outcome,    \* what the expansion returned
    pc,         \* the calling thread's position
    n,          \* the number of worker threads of this call
    wstate,     \* each worker thread's position
    spawned,    \* worker threads spawned so far
    joined,     \* worker threads joined so far
    closed,     \* whether the shutdown channel is closed (its sender dropped)
    queue,      \* messages in the shutdown channel
    closes,     \* close events of the shutdown channel
    r,          \* the result captured from the body
    retval,     \* the value the outer main returned
    bodyRuns    \* how many times the inner async main was driven

vars == <<lib, mode, fn, args, auto, outcome, pc, n, wstate, spawned, joined,
          closed, queue, closes, r, retval, bodyRuns>>

input == <<lib, mode, fn, args, auto>>
threadVars == <<n, wstate, spawned, joined, closed, queue, closes, r, retval, bodyRuns>>

Fns ==
    [isAsync : BOOLEAN, name : {MainIdent, OtherIdent}, nparams : 0..1,
     vis : {"", "pub"}, ret : {"", "-> io::Result<()>"}]

\* What the body can evaluate to (the macro does not look at it).
Results == {"Ok", "Err"}
NoResult == "none"

Workers == 1..MaxWorkers

Init ==
    /\ fn \in Fns
    /\ \/ /\ lib = "macro" /\ mode = "main"
          /\ args \in ArgLists
          /\ auto \in BOOLEAN
       \/ /\ lib = "macro" /\ mode \in {"test", "bench"}
          /\ args \in {<<>>, <<BareArg>>}
          /\ auto \in BOOLEAN
       \/ /\ lib = "root" /\ mode \in {"main", "test", "bench"}
          /\ args \in {<<>>, <<BareArg>>}
          /\ auto = FALSE
    /\ outcome = NoOutcome
    /\ pc = "parsed"
    /\ n = 0
    /\ wstate = [w \in Workers |-> "unspawned"]
    /\ spawned = 0
    /\ joined = 0
    /\ closed = FALSE
    /\ queue = 0
    /\ closes = 0
    /\ r = NoResult
    /\ retval = NoResult
    /\ bodyRuns = 0

----------------------------------------------------------------------------
(* The expansion.                                                          *)

Expanded(out) ==
    /\ pc = "parsed"
    /\ outcome' = out
    /\ pc' = "expanded"
    /\ UNCHANGED <<input, threadVars>>

ExpandMain == lib = "macro" /\ mode = "main" /\ Expanded(MacroMain(fn, args, auto))
ExpandTest == lib = "macro" /\ mode = "test" /\ Expanded(MacroTest(fn))
ExpandBench == lib = "macro" /\ mode = "bench" /\ Expanded(MacroBench(fn))
ExpandRootMain == lib = "root" /\ mode = "main" /\ Expanded(RootMain(fn))
ExpandRootTest == lib = "root" /\ mode = "test" /\ Expanded(RootTest(fn))
ExpandRootBench == lib = "root" /\ mode = "bench" /\ Expanded(RootBench(fn))

----------------------------------------------------------------------------
(* The generated fn main().  It compiles only when the inner async fn      *)
(* main takes no parameters (it is called as main()).                      *)

Program == outcome.program

Runnable ==
    /\ pc = "expanded"
    /\ outcome.kind = "code"
    /\ mode = "main"
    /\ fn.nparams = 0

IsPool == Program.shape \in {"pool", "auto_pool"}

\* A variant: a range that is one short (1..#num).
CallMainPoolOneShort ==
    /\ Runnable
    /\ Program.shape = "pool"
    /\ Len(Program.num) = 1
    /\ ToNat(Program.num) <= MaxWorkers
    /\ n' = ToNat(Program.num) - 1
    /\ pc' = "spawning"
    /\ UNCHANGED <<input, outcome, wstate, spawned, joined, closed, queue, closes, r, retval, bodyRuns>>

\* let ex = Executor::new(); let (signal, shutdown) = unbounded::<()>();
\* then Parallel::new().each(0..#num, ...): #num closures
CallMainPool ==
    /\ Runnable
    /\ Program.shape = "pool"
    /\ Len(Program.num) = 1
    /\ ToNat(Program.num) <= MaxWorkers
    /\ n' = ToNat(Program.num)
    /\ pc' = "spawning"
    /\ UNCHANGED <<input, outcome, wstate, spawned, joined, closed, queue, closes, r, retval, bodyRuns>>

\* let num_cpus = num_cpus::get().max(1); ... .each(0..num_cpus, ...)
CallMainAuto ==
    /\ Runnable
    /\ Program.shape = "auto_pool"
    /\ \E cpus \in 0..MaxWorkers :
          n' = IF cpus > 1 THEN cpus ELSE 1
    /\ pc' = "spawning"
    /\ UNCHANGED <<input, outcome, wstate, spawned, joined, closed, queue, closes, r, retval, bodyRuns>>

\* smol_potat::block_on(async { main().await }) / smol::run(async { main().await })
CallMainBlockOn ==
    /\ Runnable
    /\ Program.shape = "block_on"
    /\ pc' = "body"
    /\ bodyRuns' = bodyRuns + 1
    /\ UNCHANGED <<input, outcome, n, wstate, spawned, joined, closed, queue, closes, r, retval>>

\* Parallel::finish spawns one thread per closure ...
SpawnWorker ==
    /\ pc = "spawning"
    /\ spawned < n
    /\ spawned' = spawned + 1
    /\ wstate' = [wstate EXCEPT ![spawned + 1] = "polling"]
    /\ UNCHANGED <<input, outcome, pc, n, joined, closed, queue, closes, r, retval, bodyRuns>>

\* A variant: the body driven a second time.
BeginBodyTwice ==
    /\ pc = "spawning"
    /\ spawned = n
    /\ pc' = "body"
    /\ bodyRuns' = bodyRuns + 2
    /\ UNCHANGED <<input, outcome, n, wstate, spawned, joined, closed, queue, closes, r, retval>>

\* ... then runs its own closure on the calling thread:
\* block_on(async { let r = main().await; ... })
BeginBody ==
    /\ pc = "spawning"
    /\ spawned = n
    /\ pc' = "body"
    /\ bodyRuns' = bodyRuns + 1
    /\ UNCHANGED <<input, outcome, n, wstate, spawned, joined, closed, queue, closes, r, retval>>

\* A variant: the wait for the body may be given up (a timeout), no result captured.
BodyCompleteOrTimeout ==
    /\ pc = "body"
    /\ \E v \in Results \cup {NoResult} : r' = v
    /\ pc' = "captured"
    /\ UNCHANGED <<input, outcome, n, wstate, spawned, joined, closed, queue, closes, retval, bodyRuns>>

\* let r = main().await;
BodyComplete ==
    /\ pc = "body"
    /\ \E v \in Results : r' = v
    /\ pc' = "captured"
    /\ UNCHANGED <<input, outcome, n, wstate, spawned, joined, closed, queue, closes, retval, bodyRuns>>

\* A variant: the sender dropped before the body is awaited.
DropSignalEarly ==
    /\ pc = "body"
    /\ IsPool
    /\ ~closed
    /\ closed' = TRUE
    /\ closes' = closes + 1
    /\ UNCHANGED <<input, outcome, pc, n, wstate, spawned, joined, queue, r, retval, bodyRuns>>

\* A variant: the sender is not dropped when the body has completed.
DropSignalLeaked ==
    /\ pc = "captured"
    /\ IsPool
    /\ pc' = "joining"
    /\ UNCHANGED <<input, outcome, n, wstate, spawned, joined, closed, queue, closes, r, retval, bodyRuns>>

\* drop(signal); r      (the only sender: the channel closes)
DropSignal ==
    /\ pc = "captured"
    /\ IsPool
    /\ closed' = TRUE
    /\ closes' = closes + 1
    /\ pc' = "joining"
    /\ UNCHANGED <<input, outcome, n, wstate, spawned, joined, queue, r, retval, bodyRuns>>

\* A variant: the threads are counted as joined without being waited for.
JoinWorkerNoWait ==
    /\ pc = "joining"
    /\ joined < n
    /\ joined' = joined + 1
    /\ UNCHANGED <<input, outcome, pc, n, wstate, spawned, closed, queue, closes, r, retval, bodyRuns>>

\* Parallel::finish joins the threads in the order it spawned them
JoinWorker ==
    /\ pc = "joining"
    /\ joined < n
    /\ wstate[joined + 1] = "exited"
    /\ joined' = joined + 1
    /\ UNCHANGED <<input, outcome, pc, n, wstate, spawned, closed, queue, closes, r, retval, bodyRuns>>

\* let (_, r) = ...finish(...); r
ReturnPool ==
    /\ pc = "joining"
    /\ joined = n
    /\ retval' = r
    /\ pc' = "returned"
    /\ UNCHANGED <<input, outcome, n, wstate, spawned, joined, closed, queue, closes, r, bodyRuns>>

\* block_on returns the value of main().await
ReturnBlockOn ==
    /\ pc = "captured"
    /\ Program.shape = "block_on"
    /\ retval' = r
    /\ pc' = "returned"
    /\ UNCHANGED <<input, outcome, n, wstate, spawned, joined, closed, queue, closes, r, bodyRuns>>

----------------------------------------------------------------------------
(* A worker thread: block_on(ex.run(shutdown.recv())).  Nothing outside    *)
(* the generated fn main holds `ex`, so a tick finds no task.              *)

\* A variant: a receive that does not wait (an empty channel ends the thread).
WorkerPollNoWait(w) ==
    /\ wstate[w] = "polling"
    /\ wstate' = [wstate EXCEPT ![w] = "exited"]
    /\ UNCHANGED <<input, outcome, pc, n, spawned, joined, closed, queue, closes, r, retval, bodyRuns>>

\* recv() is polled: a message or the close completes it and the thread
\* ends; else the worker registers for the wake-up and ticks the executor.
WorkerPoll(w) ==
    /\ wstate[w] = "polling"
    /\ IF queue > 0
       THEN /\ queue' = queue - 1
            /\ wstate' = [wstate EXCEPT ![w] = "exited"]
       ELSE /\ queue' = queue
            /\ wstate' = [wstate EXCEPT ![w] = IF closed THEN "exited" ELSE "ticking"]
    /\ UNCHANGED <<input, outcome, pc, n, spawned, joined, closed, closes, r, retval, bodyRuns>>

\* Nothing to run: the thread parks, unless the close has woken it since the poll.
WorkerPark(w) ==
    /\ wstate[w] = "ticking"
    /\ wstate' = [wstate EXCEPT ![w] = IF closed THEN "polling" ELSE "parked"]
    /\ UNCHANGED <<input, outcome, pc, n, spawned, joined, closed, queue, closes, r, retval, bodyRuns>>

\* The close wakes every parked receiver.
WorkerWake(w) ==
    /\ wstate[w] = "parked"
    /\ closed
    /\ wstate' = [wstate EXCEPT ![w] = "polling"]
    /\ UNCHANGED <<input, outcome, pc, n, spawned, joined, closed, queue, closes, r, retval, bodyRuns>>

----------------------------------------------------------------------------

Next ==
    \/ ExpandMain
    \/ ExpandTest
    \/ ExpandBench
    \/ ExpandRootMain
    \/ ExpandRootTest
    \/ ExpandRootBench
    \/ CallMainPool
    \/ CallMainAuto
    \/ CallMainBlockOn
    \/ SpawnWorker
    \/ BeginBody
    \/ BodyComplete
    \/ DropSignal
    \/ JoinWorker
    \/ ReturnPool
    \/ ReturnBlockOn
    \/ \E w \in Workers : WorkerPoll(w)
    \/ \E w \in Workers : WorkerPark(w)
    \/ \E w \in Workers : WorkerWake(w)

Spec == Init /\ [][Next]_vars

\* Every thread that can take a step eventually takes one.  The body is not
\* required to complete, nor the program to be called.  The signature of the
\* function plays no part in a run, so one signature is taken.
FairInit == Init /\ fn.vis = "" /\ fn.ret = ""

FairSpec ==
    /\ FairInit
    /\ [][Next]_vars
    /\ WF_vars(SpawnWorker)
    /\ WF_vars(BeginBody)
    /\ WF_vars(DropSignal)
    /\ WF_vars(JoinWorker)
    /\ WF_vars(ReturnPool)
    /\ WF_vars(ReturnBlockOn)
    /\ \A w \in Workers :
          WF_vars(WorkerPoll(w)) /\ WF_vars(WorkerPark(w)) /\ WF_vars(WorkerWake(w))

----------------------------------------------------------------------------
(* Properties.                                                             *)

Running(w) == wstate[w] \in {"polling", "ticking", "parked"}

\* The threads polling the shared executor.
Pollers == {w \in Workers : Running(w)}

C2_ExitOnlyOnClose ==
    /\ \A w \in Workers : wstate[w] = "exited" => closed
    /\ queue = 0
    /\ closes <= 1
    /\ closed <=> closes = 1

C2_Witness ==
    /\ n >= 2
    /\ wstate[1] = "exited"
    /\ wstate[2] = "parked"

\* C3: when the pool entry point has returned, every one of its n worker
\* threads has ended and been joined: no thread polls the executor any more.
C3_ReturnAfterAllExited ==
    (pc = "returned" /\ IsPool) =>
        /\ \A w \in 1..n : wstate[w] = "exited"
        /\ Pollers = {}
        /\ joined = n
        /\ spawned = n

C3_Witness ==
    /\ pc = "returned"
    /\ IsPool
    /\ n = MaxWorkers

\* C4: under fair scheduling, once the body has completed with a value v the
\* pool entry point eventually returns v, every worker having ended, whatever
\* the workers were doing when the channel was closed.
C4_CompletionLeadsToReturn ==
    \A v \in Results :
        (pc = "captured" /\ IsPool /\ r = v)
            ~> (pc = "returned" /\ retval = v /\ \A w \in 1..n : wstate[w] = "exited")

\* The channel has just been closed with one worker parked and another in the
\* middle of an iteration.
C4_Witness ==
    /\ pc = "joining"
    /\ closed
    /\ joined = 0
    /\ \E w \in 1..n : wstate[w] = "parked"
    /\ \E w \in 1..n : wstate[w] = "ticking"

----------------------------------------------------------------------------
(* The argument list and the function as the claims describe them.         *)

EntryPoint == lib = "macro" /\ mode = "main"
Done == pc # "parsed"
ValidMain == fn.name = MainIdent /\ fn.isAsync

ThreadsArg(k) == NameValue(<<ThreadsKey>>, IntLit(<<k>>))

IsPair(a) == a.shape = "NameValue"
KeyIsThreads(a) == Len(a.path) = 1 /\ to_lowercase(a.path[1]) = ThreadsKey
Overflows(a) == IsPair(a) /\ KeyIsThreads(a) /\ a.lit.kind = "Int" /\ StripZeros(a.lit.digits) = U32OverDigits
\* a threads pair whose value is an integer of 32 bits
GoodThreads(a) == IsPair(a) /\ KeyIsThreads(a) /\ a.lit.kind = "Int" /\ ~Overflows(a)

\* unknown key, non-pair argument, non-integer threads
ConfigError(a) == ~IsPair(a) \/ ~KeyIsThreads(a) \/ a.lit.kind # "Int"
ConfigMsg(a) ==
    IF ~IsPair(a) THEN MsgUnknownAttr
    ELSE IF Len(a.path) # 1 THEN MsgNoIdent
    ELSE IF ~KeyIsThreads(a) THEN MsgUnknownPair
    ELSE MsgThreadsInt

HasConfigError == \E i \in 1..Len(args) : ConfigError(args[i])
\* the first argument that is not a threads pair of 32 bits
FirstBad == CHOOSE i \in 1..Len(args) :
                /\ ~GoodThreads(args[i])
                /\ \A j \in 1..(i - 1) : GoodThreads(args[j])

ViolatesAsync == ~fn.isAsync
ViolatesName == mode = "main" /\ fn.name # MainIdent
ViolatesParams == mode = "bench" /\ fn.nparams # 0

ShapeMsgs == {MsgNoAsync, MsgOnlyMain, MsgBenchArgs}
IsShapeDiagnostic == outcome.kind = "diagnostic" /\ outcome.msg \in ShapeMsgs
Ran(stage) == \E i \in 1..Len(outcome.stages) : outcome.stages[i] = stage

NoDiag == [msg |-> "", tok |-> "none"]
\* the shape diagnostic emitted, if one was
ShapeDiag ==
    IF IsShapeDiagnostic THEN [msg |-> outcome.msg, tok |-> outcome.loc.tok] ELSE NoDiag

AsyncDiag == [msg |-> MsgNoAsync, tok |-> "function"]
NameDiag == [msg |-> MsgOnlyMain, tok |-> "name"]
ParamsDiag == [msg |-> MsgBenchArgs, tok |-> "params"]

\* C5: a threads value of 0 or 1 resolves to Default, whether or not the
\* feature auto is enabled: no worker thread, the body driven on the caller.
C5_ThreadsZeroOneIsDefault ==
    (/\ EntryPoint /\ Done /\ ValidMain
     /\ Len(args) >= 1
     /\ \A i \in 1..Len(args) : args[i] \in {ThreadsArg(0), ThreadsArg(1)})
    => /\ outcome.kind = "code"
       /\ Program.shape = "block_on"
       /\ n = 0
       /\ spawned = 0

\* C6: when threads is repeated the last value wins: Fixed(v) when the last
\* value v is greater than 1, Default otherwise, and no error.
C6_LastThreadsWins ==
    (/\ EntryPoint /\ Done /\ ValidMain /\ ~auto
     /\ Len(args) >= 2
     /\ \A i \in 1..Len(args) : GoodThreads(args[i]))
    => LET v == StripZeros(args[Len(args)].lit.digits) IN
       /\ outcome.kind = "code"
       /\ IF GreaterThanOne(v)
          THEN Program.shape = "pool" /\ Program.num = v
          ELSE Program.shape = "block_on"

\* C7 as stated: in every mode the shape diagnostic is that of the first
\* rule violated in the order async, name (main), parameters (bench).
C7_AsyncCheckedFirst ==
    (Done /\ Ran("validate")) =>
        ShapeDiag = IF ViolatesAsync THEN AsyncDiag
                    ELSE IF ViolatesName THEN NameDiag
                    ELSE IF ViolatesParams THEN ParamsDiag
                    ELSE NoDiag

\* C7 (amended): the shape diagnostic is that of the first rule violated in
\* the order name (main), async, parameters (bench): a non-async function not
\* named main gets the only-the-main-function diagnostic, a non-async
\* benchmark with parameters the async-keyword-missing diagnostic.
C7_NameCheckedFirst ==
    (Done /\ Ran("validate")) =>
        ShapeDiag = IF ViolatesName THEN NameDiag
                    ELSE IF ViolatesAsync THEN AsyncDiag
                    ELSE IF ViolatesParams THEN ParamsDiag
                    ELSE NoDiag

C7_Witness ==
    /\ Done
    /\ EntryPoint
    /\ ~fn.isAsync
    /\ fn.name # MainIdent
    /\ outcome.msg = MsgOnlyMain

C10_CodeOrDiagnostic ==
    Done => \/ outcome.kind = "code" /\ outcome.program # NoProgram
            \/ outcome.kind = "diagnostic" /\ outcome.loc # NoLoc /\ outcome.msg # ""

\* Some argument is not a threads pair of 32 bits, and the first such is a
\* threads pair whose value is not an integer literal.
FirstBadIsNonIntThreads ==
    /\ \E i \in 1..Len(args) : ~GoodThreads(args[i])
    /\ IsPair(args[FirstBad])
    /\ KeyIsThreads(args[FirstBad])
    /\ args[FirstBad].lit.kind # "Int"

C13_SameNameVisibilityReturn ==
    (Done /\ outcome.kind = "code") =>
        /\ Program.name = fn.name
        /\ Program.vis = fn.vis
        /\ Program.ret = fn.ret

----------------------------------------------------------------------------
(* The expansion of main over the casings of the key threads.              *)

ThreadsKeyUpper == <<"T", "H", "R", "E", "A", "D", "S">>
ThreadsCasings == {ThreadsKey, ThreadsKeyMixed, ThreadsKeyUpper}

CaseArgSet ==
    {NameValue(<<k>>, l) :
        k \in ThreadsCasings,
        l \in SmallLits \cup {IntLit(U32MaxDigits), IntLit(U32OverDigits), StrLit}}

CaseArgLists == UNION {[1..k -> CaseArgSet] : k \in 0..MaxArgs}

CaseInit ==
    /\ lib = "macro" /\ mode = "main"
    /\ fn \in {f \in Fns : f.vis = "" /\ f.ret = ""}
    /\ args \in CaseArgLists
    /\ auto \in BOOLEAN
    /\ outcome = NoOutcome
    /\ pc = "parsed"
    /\ n = 0
    /\ wstate = [w \in Workers |-> "unspawned"]
    /\ spawned = 0
    /\ joined = 0
    /\ closed = FALSE
    /\ queue = 0
    /\ closes = 0
    /\ r = NoResult
    /\ retval = NoResult
    /\ bodyRuns = 0

CaseNext == ExpandMain

CaseSpec == CaseInit /\ [][CaseNext]_vars

\* The list with every casing of the key threads written in lower case.
LowerKeyed(list) ==
    [i \in 1..Len(list) |->
        IF IsPair(list[i]) /\ Len(list[i].path) = 1 /\ list[i].path[1] \in ThreadsCasings
        THEN NameValue(<<ThreadsKey>>, list[i].lit)
        ELSE list[i]]

\* C14: whatever the casing of the key threads and whatever the value, the
\* expansion gives the configuration or the diagnostic it gives for the same
\* arguments with the key written threads.
C14_KeyCaseInsensitive ==
    Done => outcome = MacroMain(fn, LowerKeyed(args), auto)

C14_Witness ==
    /\ Done
    /\ ValidMain
    /\ args = <<NameValue(<<ThreadsKeyUpper>>, IntLit(<<MaxWorkers>>))>>
    /\ outcome.kind = "code"
    /\ Program.shape = "pool"
    /\ Program.num = <<MaxWorkers>>

----------------------------------------------------------------------------
(* Who drives the executor `ex`.  A worker does from its spawn to its end  *)
(* (ex.run(shutdown.recv())); the calling thread would if the closure of   *)
(* finish drove the body through ex.run.  The calling thread is thread 0.  *)

CallerRunsExecutor == Program.driver = "Executor::run"

ExecutorThreads ==
    Pollers \cup (IF pc = "body" /\ CallerRunsExecutor THEN {0} ELSE {})

\* C15 as stated: while the body runs, the calling thread drives it on the
\* shared executor, which n + 1 threads then drive.
C15_CallerOnSharedExecutor ==
    (IsPool /\ pc = "body") =>
        /\ 0 \in ExecutorThreads
        /\ Cardinality(ExecutorThreads) = n + 1

\* C15 (amended): the calling thread drives the body with block_on on the
\* calling thread, not through the shared executor: while the body runs the
\* executor is driven by the n workers and by no other thread.
C15_OnlyWorkersOnExecutor ==
    (IsPool /\ pc = "body") =>
        /\ Program.driver = "futures_lite::block_on"
        /\ ExecutorThreads = 1..n
        /\ Cardinality(ExecutorThreads) = n

C15_Witness ==
    /\ IsPool
    /\ pc = "body"
    /\ n = MaxWorkers
    /\ \E w \in 1..n : wstate[w] = "ticking"

\* C16: in every generated entry point (block_on, pool, automatic pool) a
\* call drives the body exactly once, at the calling thread's position: a
\* worker thread only ever polls the executor, and the value returned is the
\* result captured from that one run.
C16_BodyOnceOnCaller ==
    mode = "main" =>
        /\ bodyRuns <= 1
        /\ bodyRuns = 1 <=> pc \in {"body", "captured", "joining", "returned"}
        /\ \A w \in Workers :
              wstate[w] \in {"unspawned", "polling", "ticking", "parked", "exited"}
        /\ pc \in {"captured", "joining"} => r \in Results /\ retval = NoResult
        /\ pc = "returned" => r \in Results /\ retval = r

C16_Witness ==
    /\ mode = "main"
    /\ Program.shape = "auto_pool"
    /\ pc = "returned"
    /\ bodyRuns = 1
    /\ retval = "Err"

====
